---- MODULE Spec2Model ----
(***************************************************************************)
(* Model of src/src/formatter.rs: the Formatter of tcl-formatter-rs, a     *)
(* recursive pretty-printer that renders an Ast into bytes.                *)
(*                                                                         *)
(* A byte is a one-character string, a byte string (Vec<u8>, &[u8]) is a   *)
(* sequence of bytes.  An Option is a sequence of length 0 (None) or 1     *)
(* (Some).  The recursion of Formatter::run is unfolded into a stack of    *)
(* pending work: each frame is a piece of code that is still to run, in    *)
(* the order in which the Rust call stack would run it.                    *)
(***************************************************************************)
EXTENDS Integers, Sequences, FiniteSets, TLC

(***************************************************************************)
(* The data model: crate::ast::{Ast, Statement}, with the field names the  *)
(* patterns of formatter.rs bind.                                          *)
(***************************************************************************)
None == <<>>

Some(v) == <<v>>

Block(trees) == [type |-> "Block", trees |-> trees]

Comment(data) == [type |-> "Comment", data |-> data]

Procedure(name, parameters, body) ==
    [type |-> "Procedure", name |-> name, parameters |-> parameters, body |-> body]

If(condition, body) == [type |-> "If", condition |-> condition, body |-> body]

IfElse(condition, block_if_true, block_if_false) ==
    [type |-> "IfElse", condition |-> condition,
     block_if_true |-> block_if_true, block_if_false |-> block_if_false]

IfElseIf(condition_block_vec, block_if_false) ==
    [type |-> "IfElseIf", condition_block_vec |-> condition_block_vec,
     block_if_false |-> block_if_false]

Switch(condition, value_block_or_fallthrough_vec) ==
    [type |-> "Switch", condition |-> condition,
     value_block_or_fallthrough_vec |-> value_block_or_fallthrough_vec]

StatementNode(s) == [type |-> "Statement", s |-> s]

Newline == [type |-> "Newline"]

Set(identifier, value) == [kind |-> "Set", identifier |-> identifier, value |-> value]

Log(bucket, value) == [kind |-> "Log", bucket |-> bucket, value |-> value]

Snat(ip_address, port) == [kind |-> "Snat", ip_address |-> ip_address, port |-> port]

Node(ip_address, port) == [kind |-> "Node", ip_address |-> ip_address, port |-> port]

Pool(identifier) == [kind |-> "Pool", identifier |-> identifier]

SnatPool(identifier) == [kind |-> "SnatPool", identifier |-> identifier]

Return(value) == [kind |-> "Return", value |-> value]

(***************************************************************************)
(* The text-emission primitives.  Each takes the buffer and returns the    *)
(* buffer after the call.                                                  *)
(***************************************************************************)
write(b, slice) == b \o slice

newline(b) == Append(b, "\n")

writeline(b, slice) == newline(write(b, slice))

IndentUnit == <<" ", " ", " ", " ">>

RECURSIVE IndentData(_)
IndentData(d) == IF d <= 0 THEN <<>> ELSE IndentData(d - 1) \o IndentUnit

indent(b, d) == b \o IndentData(d)

\* close_block with the closing line at the depth of the body.
close_block_at_body_depth(b, d) == write(indent(b, d + 1), <<"}", "\n">>)

close_block(b, d) == write(indent(b, d), <<"}", "\n">>)

\* StatementParts with the operands of Snat in the other order.
StatementPartsPortFirst(s) ==
    IF s.kind = "Snat" THEN <<(<<"s", "n", "a", "t">>), Some(s.port), Some(s.ip_address)>>
    ELSE IF s.kind = "Node" THEN <<(<<"n", "o", "d", "e">>), Some(s.ip_address), Some(s.port)>>
    ELSE IF s.kind = "Set" THEN <<(<<"s", "e", "t">>), Some(s.identifier), Some(s.value)>>
    ELSE IF s.kind = "Log" THEN <<(<<"l", "o", "g">>), Some(s.bucket), Some(s.value)>>
    ELSE IF s.kind = "Pool" THEN <<(<<"p", "o", "o", "l">>), Some(s.identifier), None>>
    ELSE IF s.kind = "SnatPool"
         THEN <<(<<"s", "n", "a", "t", "p", "o", "o", "l">>), Some(s.identifier), None>>
    ELSE <<(<<"r", "e", "t", "u", "r", "n">>), s.value, None>>

(***************************************************************************)
(* write_statement: the keyword and the two optional operands of each      *)
(* variant, then the match on (v1, v2).  The result is the buffer and how  *)
(* the call ended: "ok", or the panic of todo!() / unreachable!().         *)
(***************************************************************************)
StatementParts(s) ==
    CASE s.kind = "Set"      -> <<(<<"s", "e", "t">>), Some(s.identifier), Some(s.value)>>
      [] s.kind = "Log"      -> <<(<<"l", "o", "g">>), Some(s.bucket), Some(s.value)>>
      [] s.kind = "Snat"     -> <<(<<"s", "n", "a", "t">>), Some(s.ip_address), Some(s.port)>>
      [] s.kind = "Node"     -> <<(<<"n", "o", "d", "e">>), Some(s.ip_address), Some(s.port)>>
      [] s.kind = "Pool"     -> <<(<<"p", "o", "o", "l">>), Some(s.identifier), None>>
      [] s.kind = "SnatPool" -> <<(<<"s", "n", "a", "t", "p", "o", "o", "l">>), Some(s.identifier), None>>
      [] s.kind = "Return"   -> <<(<<"r", "e", "t", "u", "r", "n">>), s.value, None>>

write_statement(b, s) ==
    LET keyword == StatementParts(s)[1]
        v1 == StatementParts(s)[2]
        v2 == StatementParts(s)[3]
        b1 == write(b, keyword)
    IN  CASE v1 # None /\ v2 # None ->
               [buf |-> newline(write(write(write(write(b1, <<" ">>), v1[1]), <<" ">>), v2[1])),
                end |-> "ok"]
          [] v1 # None /\ v2 = None ->
               [buf |-> newline(write(write(b1, <<" ">>), v1[1])), end |-> "ok"]
          [] v1 = None /\ v2 = None -> [buf |-> b1, end |-> "panic_todo"]
          [] OTHER -> [buf |-> b1, end |-> "panic_unreachable"]

(***************************************************************************)
(* The pending work of the traversal.  A frame is a piece of the code of   *)
(* run / run_nested that is still to be executed.                          *)
(***************************************************************************)
RunFrame(t) == [op |-> "run", ast |-> t]

NestedFrame(t) == [op |-> "run_nested", ast |-> t]

NestedExitFrame == [op |-> "run_nested_exit"]

CloseFrame == [op |-> "close_block"]

IfElseElseFrame(b) == [op |-> "ifelse_else", block |-> b]

IfElseIfPairFrame(idx, condition, block) ==
    [op |-> "ifelseif_pair", idx |-> idx, condition |-> condition, block |-> block]

IfElseIfElseFrame(b) == [op |-> "ifelseif_else", block |-> b]

SwitchCaseFrame(value, block_or_fallthrough) ==
    [op |-> "switch_case", value |-> value, block_or_fallthrough |-> block_or_fallthrough]

SwitchExitFrame == [op |-> "switch_exit"]

\* run, lines 26-29: the counter of consecutive Newline nodes at the entry
\* of run for the node t.
NextConsecutive(t, c) == IF t.type = "Newline" THEN c + 1 ELSE 0

\* run, line 140: whether a Newline node writes its line break.
EmitsNewline(c) == c <= 2

RECURSIVE ConcatBytes(_)
ConcatBytes(ps) ==
    IF ps = <<>> THEN <<>> ELSE <<" ">> \o Head(ps) \o ConcatBytes(Tail(ps))

(***************************************************************************)
(* The trees given to format.  The operands are opaque bytes; the trees    *)
(* are drawn from six families, one per construct under study.             *)
(***************************************************************************)
MaxRun == 5

MaxNest == 2

MaxPairs == 3

MaxCases == 3

MaxParams == 2

MaxCalls == 2

Operand == {<<"x">>, <<"1">>}

SeqsUpTo(S, n) == UNION {[1..k -> S] : k \in 0..n}

Statements ==
    {Set(a, b) : a \in Operand, b \in Operand}
    \cup {Log(a, b) : a \in Operand, b \in Operand}
    \cup {Snat(a, b) : a \in Operand, b \in Operand}
    \cup {Node(a, b) : a \in Operand, b \in Operand}
    \cup {Pool(a) : a \in Operand}
    \cup {SnatPool(a) : a \in Operand}
    \cup {Return(Some(a)) : a \in Operand}
    \cup {Return(None)}

LeafStatement == StatementNode(Set(<<"x">>, <<"1">>))

LeafComment == Comment(<<"x">>)

StatementTrees ==
    {StatementNode(s) : s \in Statements}
    \cup {If(<<"x">>, Block(<<LeafComment, StatementNode(s)>>)) : s \in Statements}

NewlineRun(n) == [i \in 1..n |-> Newline]

BlockItems ==
    {LeafStatement, Block(<<>>), Block(<<Newline, Newline>>),
     If(<<"x">>, Block(<<LeafStatement, Newline, Newline>>))}

\* Blocks made of a run of Newline nodes, or of two runs around one node.
NewlineTrees ==
    {Block(NewlineRun(i)) : i \in 0..MaxRun}
    \cup {Block(NewlineRun(i) \o <<t>> \o NewlineRun(j)) :
            i \in 0..MaxRun, j \in 0..MaxRun, t \in BlockItems}

\* The compound nodes around the subtree t, which a comment follows in the
\* same body.
Wrappers(t) ==
    LET body == Block(<<t, LeafComment>>)
    IN  {Procedure(<<"x">>, <<>>, body),
         If(<<"x">>, body),
         IfElse(<<"x">>, body, Block(<<LeafStatement>>)),
         IfElse(<<"x">>, Block(<<>>), body),
         IfElseIf(<<(<<(<<"x">>), Block(<<>>)>>), (<<(<<"1">>), body>>)>>, Block(<<LeafStatement>>)),
         IfElseIf(<<(<<(<<"x">>), Block(<<>>)>>)>>, body),
         Switch(<<"x">>, <<(<<(<<"1">>), None>>), (<<(<<"x">>), Some(body)>>)>>)}

RECURSIVE NestedTrees(_)
NestedTrees(n) ==
    IF n = 0 THEN {LeafStatement, LeafComment}
    ELSE NestedTrees(n - 1) \cup UNION {Wrappers(t) : t \in NestedTrees(n - 1)}

Bodies == {Block(<<>>), Block(<<LeafStatement>>)}

IfElseIfTrees ==
    {IfElseIf(pairs, b) : pairs \in SeqsUpTo(Operand \X Bodies, MaxPairs), b \in Bodies}

SwitchTrees ==
    {Switch(<<"x">>, cases) :
        cases \in SeqsUpTo(Operand \X ({None} \cup {Some(b) : b \in Bodies}), MaxCases)}

ProcedureTrees ==
    {Procedure(<<"x">>, ps, Block(<<LeafStatement>>)) : ps \in SeqsUpTo(Operand, MaxParams)}

TreeSet ==
    StatementTrees \cup NewlineTrees \cup NestedTrees(MaxNest) \cup IfElseIfTrees
    \cup SwitchTrees \cup ProcedureTrees

VARIABLES ast, depth, consecutive_new_lines, buf, stack, pc, returned

vars == <<ast, depth, consecutive_new_lines, buf, stack, pc, returned>>

Top == stack[1]

Rest == Tail(stack)

Running(op) == pc = "running" /\ stack # <<>> /\ Top.op = op

RunOf(type) == Running("run") /\ Top.ast.type = type

\* A construction that keeps the counter of the previous Formatter.
NewKeepingCounter ==
    /\ pc = "done"
    /\ Len(returned) < MaxCalls
    /\ depth' = 0
    /\ buf' = <<>>
    /\ stack' = <<>>
    /\ pc' = "new"
    /\ UNCHANGED <<ast, consecutive_new_lines, returned>>

(***************************************************************************)
(* Formatter::new, and a later construction of a fresh Formatter for the   *)
(* same tree.                                                              *)
(***************************************************************************)
New ==
    /\ pc = "done"
    /\ Len(returned) < MaxCalls
    /\ depth' = 0
    /\ consecutive_new_lines' = 0
    /\ buf' = <<>>
    /\ stack' = <<>>
    /\ pc' = "new"
    /\ UNCHANGED <<ast, returned>>

\* format, line 21: the call of self.run(ast).
Format ==
    /\ pc = "new"
    /\ stack' = <<RunFrame(ast)>>
    /\ pc' = "running"
    /\ UNCHANGED <<ast, depth, consecutive_new_lines, buf, returned>>

\* format, line 22: run has returned, the buffer is the result.
FormatReturn ==
    /\ pc = "running"
    /\ stack = <<>>
    /\ returned' = Append(returned, buf)
    /\ pc' = "done"
    /\ UNCHANGED <<ast, depth, consecutive_new_lines, buf, stack>>

RunBlock ==
    /\ RunOf("Block")
    /\ consecutive_new_lines' = NextConsecutive(Top.ast, consecutive_new_lines)
    /\ stack' = [i \in 1..Len(Top.ast.trees) |-> RunFrame(Top.ast.trees[i])] \o Rest
    /\ UNCHANGED <<ast, depth, buf, pc, returned>>

RunComment ==
    /\ RunOf("Comment")
    /\ consecutive_new_lines' = NextConsecutive(Top.ast, consecutive_new_lines)
    /\ buf' = newline(write(write(indent(buf, depth), <<"#", " ">>), Top.ast.data))
    /\ stack' = Rest
    /\ UNCHANGED <<ast, depth, pc, returned>>

RunProcedure ==
    /\ RunOf("Procedure")
    /\ consecutive_new_lines' = NextConsecutive(Top.ast, consecutive_new_lines)
    /\ buf' = writeline(
                write(write(write(write(indent(buf, depth), <<"p", "r", "o", "c", " ">>),
                                  Top.ast.name), <<" ", "{">>),
                      ConcatBytes(Top.ast.parameters)),
                <<" ", "}", " ", "{">>)
    /\ stack' = <<NestedFrame(Top.ast.body), CloseFrame>> \o Rest
    /\ UNCHANGED <<ast, depth, pc, returned>>

IfHeader(b, d, condition) ==
    writeline(write(write(indent(b, d), <<"i", "f", " ", "{", " ">>), condition),
              <<" ", "}", " ", "{">>)

RunIf ==
    /\ RunOf("If")
    /\ consecutive_new_lines' = NextConsecutive(Top.ast, consecutive_new_lines)
    /\ buf' = IfHeader(buf, depth, Top.ast.condition)
    /\ stack' = <<NestedFrame(Top.ast.body), CloseFrame>> \o Rest
    /\ UNCHANGED <<ast, depth, pc, returned>>

RunIfElse ==
    /\ RunOf("IfElse")
    /\ consecutive_new_lines' = NextConsecutive(Top.ast, consecutive_new_lines)
    /\ buf' = IfHeader(buf, depth, Top.ast.condition)
    /\ stack' = <<NestedFrame(Top.ast.block_if_true), CloseFrame,
                  IfElseElseFrame(Top.ast.block_if_false)>> \o Rest
    /\ UNCHANGED <<ast, depth, pc, returned>>

\* run, lines 80-84: the else block of an IfElse.
IfElseElse ==
    /\ Running("ifelse_else")
    /\ buf' = newline(write(indent(buf, depth), <<"e", "l", "s", "e", " ", "{">>))
    /\ stack' = <<NestedFrame(Top.block), CloseFrame>> \o Rest
    /\ UNCHANGED <<ast, depth, consecutive_new_lines, pc, returned>>

RunIfElseIf ==
    /\ RunOf("IfElseIf")
    /\ consecutive_new_lines' = NextConsecutive(Top.ast, consecutive_new_lines)
    /\ stack' = [i \in 1..Len(Top.ast.condition_block_vec) |->
                    IfElseIfPairFrame(i - 1, Top.ast.condition_block_vec[i][1],
                                      Top.ast.condition_block_vec[i][2])]
                \o <<IfElseIfElseFrame(Top.ast.block_if_false)>> \o Rest
    /\ UNCHANGED <<ast, depth, buf, pc, returned>>

\* The keyword of a pair, without the test of the index.
PairKeywordAlwaysIf(idx) == <<"i", "f", " ", "{", " ">>

\* run, lines 91-96: the keyword of the pair with index idx.
PairKeyword(idx) ==
    IF idx = 0 THEN <<"i", "f", " ", "{", " ">>
    ELSE <<"e", "l", "s", "e", "i", "f", " ", "{", " ">>

\* run, lines 90-101: one iteration of the loop over the pairs.
IfElseIfPair ==
    /\ Running("ifelseif_pair")
    /\ buf' = writeline(write(write(indent(buf, depth), PairKeyword(Top.idx)), Top.condition),
                        <<" ", "}", " ", "{">>)
    /\ stack' = <<NestedFrame(Top.block), CloseFrame>> \o Rest
    /\ UNCHANGED <<ast, depth, consecutive_new_lines, pc, returned>>

\* run, lines 102-105: the else block of an IfElseIf.
IfElseIfElse ==
    /\ Running("ifelseif_else")
    /\ buf' = writeline(indent(buf, depth), <<"e", "l", "s", "e", " ", "{">>)
    /\ stack' = <<NestedFrame(Top.block), CloseFrame>> \o Rest
    /\ UNCHANGED <<ast, depth, consecutive_new_lines, pc, returned>>

\* The Switch arm with the cases taken in the opposite order.
RunSwitchReordered ==
    /\ RunOf("Switch")
    /\ consecutive_new_lines' = NextConsecutive(Top.ast, consecutive_new_lines)
    /\ buf' = writeline(write(write(indent(buf, depth), <<"s", "w", "i", "t", "c", "h", " ">>),
                              Top.ast.condition), <<" ", "{">>)
    /\ depth' = depth + 1
    /\ stack' = [i \in 1..Len(Top.ast.value_block_or_fallthrough_vec) |->
                    LET j == Len(Top.ast.value_block_or_fallthrough_vec) + 1 - i
                    IN  SwitchCaseFrame(Top.ast.value_block_or_fallthrough_vec[j][1],
                                        Top.ast.value_block_or_fallthrough_vec[j][2])]
                \o <<SwitchExitFrame>> \o Rest
    /\ UNCHANGED <<ast, pc, returned>>

RunSwitch ==
    /\ RunOf("Switch")
    /\ consecutive_new_lines' = NextConsecutive(Top.ast, consecutive_new_lines)
    /\ buf' = writeline(write(write(indent(buf, depth), <<"s", "w", "i", "t", "c", "h", " ">>),
                              Top.ast.condition), <<" ", "{">>)
    /\ depth' = depth + 1
    /\ stack' = [i \in 1..Len(Top.ast.value_block_or_fallthrough_vec) |->
                    SwitchCaseFrame(Top.ast.value_block_or_fallthrough_vec[i][1],
                                    Top.ast.value_block_or_fallthrough_vec[i][2])]
                \o <<SwitchExitFrame>> \o Rest
    /\ UNCHANGED <<ast, pc, returned>>

\* run, lines 118-131: one iteration of the loop over the cases.
SwitchCase ==
    /\ Running("switch_case")
    /\ IF Top.block_or_fallthrough # None
       THEN /\ buf' = writeline(write(indent(buf, depth), Top.value), <<" ", "{">>)
            /\ stack' = <<NestedFrame(Top.block_or_fallthrough[1]), CloseFrame>> \o Rest
       ELSE /\ buf' = writeline(write(indent(buf, depth), Top.value), <<" ", "-">>)
            /\ stack' = Rest
    /\ UNCHANGED <<ast, depth, consecutive_new_lines, pc, returned>>

\* A subtraction on usize at 0 panics in a build with overflow checks and
\* wraps to 2^64 - 1 without them, where the next indent cannot be
\* allocated: either way the call does not return.
DepthNotRestored(d) == d

DepthMinusOne(d) == d - 1

\* run, lines 132-133: the end of the Switch arm.
SwitchExit ==
    /\ Running("switch_exit")
    /\ IF depth = 0
       THEN /\ pc' = "panic_overflow"
            /\ UNCHANGED <<depth, buf, stack>>
       ELSE /\ depth' = DepthMinusOne(depth)
            /\ buf' = close_block(buf, depth')
            /\ stack' = Rest
            /\ pc' = pc
    /\ UNCHANGED <<ast, consecutive_new_lines, returned>>

RunStatement ==
    /\ RunOf("Statement")
    /\ consecutive_new_lines' = NextConsecutive(Top.ast, consecutive_new_lines)
    /\ LET r == write_statement(indent(buf, depth), Top.ast.s)
       IN  /\ buf' = r.buf
           /\ IF r.end = "ok"
              THEN pc' = pc /\ stack' = Rest
              ELSE pc' = r.end /\ stack' = stack
    /\ UNCHANGED <<ast, depth, returned>>

RunNewline ==
    /\ RunOf("Newline")
    /\ consecutive_new_lines' = NextConsecutive(Top.ast, consecutive_new_lines)
    /\ buf' = IF EmitsNewline(consecutive_new_lines') THEN newline(buf) ELSE buf
    /\ stack' = Rest
    /\ UNCHANGED <<ast, depth, pc, returned>>

\* run_nested, lines 148-149.
RunNested ==
    /\ Running("run_nested")
    /\ depth' = depth + 1
    /\ stack' = <<RunFrame(Top.ast), NestedExitFrame>> \o Rest
    /\ UNCHANGED <<ast, consecutive_new_lines, buf, pc, returned>>

\* run_nested, line 150.
RunNestedExit ==
    /\ Running("run_nested_exit")
    /\ IF depth = 0
       THEN /\ pc' = "panic_overflow"
            /\ UNCHANGED <<depth, stack>>
       ELSE /\ depth' = DepthMinusOne(depth)
            /\ stack' = Rest
            /\ pc' = pc
    /\ UNCHANGED <<ast, consecutive_new_lines, buf, returned>>

CloseBlock ==
    /\ Running("close_block")
    /\ buf' = close_block(buf, depth)
    /\ stack' = Rest
    /\ UNCHANGED <<ast, depth, consecutive_new_lines, pc, returned>>

Init ==
    /\ ast \in TreeSet
    /\ depth = 0
    /\ consecutive_new_lines = 0
    /\ buf = <<>>
    /\ stack = <<>>
    /\ pc = "new"
    /\ returned = <<>>

Next ==
    \/ New
    \/ Format
    \/ FormatReturn
    \/ RunBlock
    \/ RunComment
    \/ RunProcedure
    \/ RunIf
    \/ RunIfElse
    \/ IfElseElse
    \/ RunIfElseIf
    \/ IfElseIfPair
    \/ IfElseIfElse
    \/ RunSwitch
    \/ SwitchCase
    \/ SwitchExit
    \/ RunStatement
    \/ RunNewline
    \/ RunNested
    \/ RunNestedExit
    \/ CloseBlock

Spec == Init /\ [][Next]_vars

(***************************************************************************)
(* Reading the output: its lines, their indentation, and the structure of  *)
(* a tree, as the properties below speak of them.                          *)
(***************************************************************************)
Panicked == pc \in {"panic_todo", "panic_unreachable", "panic_overflow"}

Min(a, b) == IF a <= b THEN a ELSE b

RECURSIVE Sum(_)
Sum(ns) == IF ns = <<>> THEN 0 ELSE Head(ns) + Sum(Tail(ns))

RECURSIVE Flatten(_)
Flatten(ss) == IF ss = <<>> THEN <<>> ELSE Head(ss) \o Flatten(Tail(ss))

CountBreaks(b) == Cardinality({i \in 1..Len(b) : b[i] = "\n"})

\* The lines of b from the position start on, without their line breaks.
RECURSIVE LinesFrom(_, _)
LinesFrom(b, start) ==
    IF start > Len(b) THEN <<>>
    ELSE LET BreakAt(i) == i = Len(b) + 1 \/ b[i] = "\n"
             end == CHOOSE i \in start..(Len(b) + 1) :
                        BreakAt(i) /\ \A j \in start..(i - 1) : ~BreakAt(j)
         IN  <<SubSeq(b, start, end - 1)>> \o LinesFrom(b, end + 1)

Lines(b) == LinesFrom(b, 1)

\* The number of spaces a line starts with.
LeadingSpaces(line) ==
    IF \A i \in 1..Len(line) : line[i] = " " THEN Len(line)
    ELSE (CHOOSE i \in 1..Len(line) :
            line[i] # " " /\ \A j \in 1..(i - 1) : line[j] = " ") - 1

Stripped(line) == SubSeq(line, LeadingSpaces(line) + 1, Len(line))

\* The length of the longest run of consecutive empty lines of b.
LongestEmptyRun(b) ==
    LET ls == Lines(b)
        IsRun(i, n) == \A k \in i..(i + n - 1) : ls[k] = <<>>
        Runs == {n \in 0..Len(ls) : \E i \in 1..(Len(ls) - n + 1) : IsRun(i, n)}
    IN  CHOOSE n \in Runs : \A m \in Runs : m <= n

\* The subtrees a node owns, in the order of its fields.
Children(t) ==
    CASE t.type = "Block" -> t.trees
      [] t.type \in {"Procedure", "If"} -> <<t.body>>
      [] t.type = "IfElse" -> <<t.block_if_true, t.block_if_false>>
      [] t.type = "IfElseIf" ->
           [i \in 1..Len(t.condition_block_vec) |-> t.condition_block_vec[i][2]]
           \o <<t.block_if_false>>
      [] t.type = "Switch" ->
           Flatten([i \in 1..Len(t.value_block_or_fallthrough_vec) |->
                        t.value_block_or_fallthrough_vec[i][2]])
      [] OTHER -> <<>>

RECURSIVE Nodes(_)
Nodes(t) == {t} \cup UNION {Nodes(Children(t)[i]) : i \in 1..Len(Children(t))}

(***************************************************************************)
(* C1.  Blank-line capping: each maximal run of n consecutive Newline      *)
(* nodes among the children of a Block contributes exactly min(n, 2) line  *)
(* breaks to the output, whatever precedes or follows the run.  Every      *)
(* other line of the output is fixed by the tree, so the claim fixes the   *)
(* number of line breaks of the output: ClaimedBreaks.                     *)
(***************************************************************************)
\* The line breaks the claim gives to the children trees[i..] of a Block,
\* run being the length of the run of Newline nodes that ends before i.
RECURSIVE ClaimedBreaks(_)
RECURSIVE ClaimedBlockBreaks(_, _, _)
ClaimedBlockBreaks(trees, i, run) ==
    IF i > Len(trees) THEN Min(run, 2)
    ELSE IF trees[i].type = "Newline" THEN ClaimedBlockBreaks(trees, i + 1, run + 1)
    ELSE Min(run, 2) + ClaimedBreaks(trees[i]) + ClaimedBlockBreaks(trees, i + 1, 0)

ClaimedBreaks(t) ==
    CASE t.type = "Block" -> ClaimedBlockBreaks(t.trees, 1, 0)
      [] t.type \in {"Comment", "Statement", "Newline"} -> 1
      [] t.type \in {"Procedure", "If"} -> 2 + ClaimedBreaks(t.body)
      [] t.type = "IfElse" ->
           4 + ClaimedBreaks(t.block_if_true) + ClaimedBreaks(t.block_if_false)
      [] t.type = "IfElseIf" ->
           Sum([i \in 1..Len(t.condition_block_vec) |->
                    2 + ClaimedBreaks(t.condition_block_vec[i][2])])
           + 2 + ClaimedBreaks(t.block_if_false)
      [] t.type = "Switch" ->
           2 + Sum([i \in 1..Len(t.value_block_or_fallthrough_vec) |->
                        LET body == t.value_block_or_fallthrough_vec[i][2]
                        IN  IF body = None THEN 1 ELSE 2 + ClaimedBreaks(body[1])])

C1_BlankLineCapping == pc = "done" => CountBreaks(buf) = ClaimedBreaks(ast)

(***************************************************************************)
(* C2.  Blank-line cap on the output: the bytes returned by format never   *)
(* contain more than two consecutive empty lines.                          *)
(***************************************************************************)
C2_AtMostTwoEmptyLines == pc = "done" => LongestEmptyRun(returned[Len(returned)]) <= 2

(***************************************************************************)
(* C4.  format cannot fail: no tree of the data model, a Return without a  *)
(* value included, makes the traversal abort.                              *)
(***************************************************************************)
C4_FormatNeverAborts == ~Panicked

(***************************************************************************)
(* C9.  Contract violations fail fast: for a tree that contains an         *)
(* IfElseIf with an empty pair list, or a Return without a value, format   *)
(* returns no output.                                                      *)
(***************************************************************************)
ViolatesContract(t) ==
    \E n \in Nodes(t) :
        \/ n.type = "IfElseIf" /\ n.condition_block_vec = <<>>
        \/ n.type = "Statement" /\ n.s.kind = "Return" /\ n.s.value = None

C9_ContractViolationsFailFast == ViolatesContract(ast) => returned = <<>>

(***************************************************************************)
(* C3.  Indentation correctness: a node at nesting depth d (the root at 0, *)
(* a body one level below its header, a Switch case value one level and a  *)
(* case body two levels below the switch header) has each of its header,   *)
(* comment and statement lines on an output line of its own that starts    *)
(* with exactly d indentation units, and the closing line of a block has   *)
(* the indentation of the line that opened it.  ClaimedDepths lists, line  *)
(* by line, the depth the claim gives to the lines of a tree.              *)
(***************************************************************************)
RECURSIVE ClaimedDepths(_, _)
ClaimedDepths(t, d) ==
    CASE t.type = "Block" ->
           Flatten([i \in 1..Len(t.trees) |-> ClaimedDepths(t.trees[i], d)])
      [] t.type \in {"Comment", "Statement"} -> <<d>>
      [] t.type = "Newline" -> <<>>
      [] t.type \in {"Procedure", "If"} -> <<d>> \o ClaimedDepths(t.body, d + 1) \o <<d>>
      [] t.type = "IfElse" ->
           <<d>> \o ClaimedDepths(t.block_if_true, d + 1) \o <<d>>
           \o <<d>> \o ClaimedDepths(t.block_if_false, d + 1) \o <<d>>
      [] t.type = "IfElseIf" ->
           Flatten([i \in 1..Len(t.condition_block_vec) |->
                        <<d>> \o ClaimedDepths(t.condition_block_vec[i][2], d + 1) \o <<d>>])
           \o <<d>> \o ClaimedDepths(t.block_if_false, d + 1) \o <<d>>
      [] t.type = "Switch" ->
           <<d>>
           \o Flatten([i \in 1..Len(t.value_block_or_fallthrough_vec) |->
                          LET body == t.value_block_or_fallthrough_vec[i][2]
                          IN  IF body = None THEN <<d + 1>>
                              ELSE <<d + 1>> \o ClaimedDepths(body[1], d + 2) \o <<d + 1>>])
           \o <<d>>

IsNonEmpty(line) == line # <<>>

NonEmptyLines(b) == SelectSeq(Lines(b), IsNonEmpty)

\* The number of spaces each non-empty line of b starts with.
Indents(b) ==
    LET ls == NonEmptyLines(b)
    IN  [k \in 1..Len(ls) |-> LeadingSpaces(ls[k])]

C3_IndentationCorrect ==
    pc = "done" =>
        LET ds == ClaimedDepths(ast, 0)
        IN  Indents(returned[Len(returned)]) = [k \in 1..Len(ds) |-> 4 * ds[k]]

\* A returned output with a closing line three levels deep: the end of a
\* case body of a Switch inside a case body of a Switch.
C3_Witness ==
    /\ pc = "done"
    /\ ast.type = "Switch"
    /\ LET ls == Lines(buf)
       IN  \E k \in 1..Len(ls) : Stripped(ls[k]) = <<"}">> /\ LeadingSpaces(ls[k]) = 4 * 3

(***************************************************************************)
(* C5.  Determinism: every call of format starts with depth 0, counter 0   *)
(* and an empty buffer, and the calls on equal trees return the same       *)
(* bytes.                                                                  *)
(***************************************************************************)
C5_Determinism ==
    /\ pc = "new" => depth = 0 /\ consecutive_new_lines = 0 /\ buf = <<>>
    /\ \A i, j \in 1..Len(returned) : returned[i] = returned[j]

\* A second call has returned, after a first call that ended with the
\* counter of consecutive Newline nodes above the cap.
C5_Witness ==
    /\ Len(returned) >= 2
    /\ consecutive_new_lines >= 3
    /\ CountBreaks(returned[2]) >= 2

(***************************************************************************)
(* C10.  Depth is restored by every node: the depth is never negative and  *)
(* no decrement happens at depth 0; the depth is, in every state, the      *)
(* number of decrements that the nodes under way still owe (so that when   *)
(* the processing of a node completes, and the pending work is again what  *)
(* it was when the node started, the depth is again what it was); a        *)
(* completed call ends at depth 0, with as many closing lines written as   *)
(* block-opening lines.                                                    *)
(***************************************************************************)
PendingDecrements(st) ==
    Cardinality({i \in 1..Len(st) : st[i].op \in {"run_nested_exit", "switch_exit"}})

Openers(b) ==
    LET ls == Lines(b)
    IN  Cardinality({k \in 1..Len(ls) : ls[k] # <<>> /\ ls[k][Len(ls[k])] = "{"})

Closers(b) ==
    LET ls == Lines(b)
    IN  Cardinality({k \in 1..Len(ls) : Stripped(ls[k]) = <<"}">>})

C10_DepthRestored ==
    /\ depth \in Nat
    /\ pc # "panic_overflow"
    /\ depth = PendingDecrements(stack)
    /\ pc = "done" => depth = 0 /\ Openers(buf) = Closers(buf)

\* A completed call on a tree with a Switch, which wrote four blocks or more.
C10_Witness ==
    /\ pc = "done"
    /\ depth = 0
    /\ \E n \in Nodes(ast) : n.type = "Switch"
    /\ Closers(buf) >= 4

(***************************************************************************)
(* C8.  Statement rendering: a Statement with an operand present is        *)
(* written as the current indentation, the keyword of its variant, each    *)
(* present operand in field order after exactly one space, and one line    *)
(* break; the operand bytes are copied unchanged.                          *)
(***************************************************************************)
Spaces(n) == [i \in 1..n |-> " "]

ClaimedKeyword(s) ==
    CASE s.kind = "Set" -> <<"s", "e", "t">>
      [] s.kind = "Log" -> <<"l", "o", "g">>
      [] s.kind = "Snat" -> <<"s", "n", "a", "t">>
      [] s.kind = "Node" -> <<"n", "o", "d", "e">>
      [] s.kind = "Pool" -> <<"p", "o", "o", "l">>
      [] s.kind = "SnatPool" -> <<"s", "n", "a", "t", "p", "o", "o", "l">>
      [] s.kind = "Return" -> <<"r", "e", "t", "u", "r", "n">>

\* The operands that are present, in field order.
ClaimedOperands(s) ==
    CASE s.kind = "Set" -> <<s.identifier, s.value>>
      [] s.kind = "Log" -> <<s.bucket, s.value>>
      [] s.kind \in {"Snat", "Node"} -> <<s.ip_address, s.port>>
      [] s.kind \in {"Pool", "SnatPool"} -> <<s.identifier>>
      [] s.kind = "Return" -> s.value

ClaimedStatementText(s) ==
    ClaimedKeyword(s)
    \o Flatten([i \in 1..Len(ClaimedOperands(s)) |-> <<" ">> \o ClaimedOperands(s)[i]])

C8_StatementRendering ==
    [][(RunOf("Statement") /\ ClaimedOperands(Top.ast.s) # <<>>)
         => buf' = buf \o Spaces(4 * depth) \o ClaimedStatementText(Top.ast.s) \o <<"\n">>]_vars

\* A returned output whose third line is a snat statement one level deep.
C8_Witness ==
    /\ pc = "done"
    /\ ast = If(<<"x">>, Block(<<LeafComment, StatementNode(Snat(<<"x">>, <<"1">>))>>))
    /\ Lines(buf)[3] = <<" ", " ", " ", " ", "s", "n", "a", "t", " ", "x", " ", "1">>

(***************************************************************************)
(* The lines of an output at one level of indentation, and the lines of a  *)
(* body made of statements and comments only.                              *)
(***************************************************************************)
\* The non-empty lines of b that start with exactly n spaces, without them.
LinesAt(b, n) ==
    LET At(line) == line # <<>> /\ LeadingSpaces(line) = n
        ls == SelectSeq(Lines(b), At)
    IN  [k \in 1..Len(ls) |-> Stripped(ls[k])]

IsPlain(t) ==
    /\ t.type = "Block"
    /\ \A i \in 1..Len(t.trees) : t.trees[i].type \in {"Statement", "Comment"}

PlainLines(t, d) ==
    [i \in 1..Len(t.trees) |->
        Spaces(4 * d) \o (IF t.trees[i].type = "Comment"
                          THEN <<"#", " ">> \o t.trees[i].data
                          ELSE ClaimedStatementText(t.trees[i].s))]

\* The node under study: the root, or the first node of the body of a root
\* If or Procedure.
NodeUnderStudy ==
    IF /\ ast.type \in {"If", "Procedure"}
       /\ ast.body.type = "Block"
       /\ ast.body.trees # <<>>
       /\ IsPlain(Block(Tail(ast.body.trees)))
    THEN ast.body.trees[1] ELSE ast

DepthUnderStudy == IF NodeUnderStudy = ast THEN 0 ELSE 1

\* The own lines of the nodes that follow the node under study at its depth.
LinesAfterStudy ==
    IF NodeUnderStudy = ast THEN <<>> ELSE PlainLines(Block(Tail(ast.body.trees)), 0)

(***************************************************************************)
(* C6.  IfElseIf keyword selection: an IfElseIf with k >= 1 pairs writes,  *)
(* in order, one line `if { <condition> } {` for the first pair and one    *)
(* line `elseif { <condition> } {` for each of the other pairs, each with  *)
(* its body and a closing line, then always one line `else {` with the     *)
(* false-branch body and a closing line; an empty Block as a body gives no *)
(* line between the opening and the closing line.                          *)
(***************************************************************************)
ClaimedPairHeader(i, condition) ==
    (IF i = 1 THEN <<"i", "f">> ELSE <<"e", "l", "s", "e", "i", "f">>)
    \o <<" ", "{", " ">> \o condition \o <<" ", "}", " ", "{">>

\* The lines of the IfElseIf t itself: headers and closing lines.
ClaimedIfElseIfOwnLines(t) ==
    Flatten([i \in 1..Len(t.condition_block_vec) |->
                <<ClaimedPairHeader(i, t.condition_block_vec[i][1]), (<<"}">>)>>])
    \o <<(<<"e", "l", "s", "e", " ", "{">>), (<<"}">>)>>

\* All the lines of the IfElseIf t at depth 0, its bodies being plain.
ClaimedIfElseIfLines(t) ==
    Flatten([i \in 1..Len(t.condition_block_vec) |->
                <<ClaimedPairHeader(i, t.condition_block_vec[i][1])>>
                \o PlainLines(t.condition_block_vec[i][2], 1)
                \o <<(<<"}">>)>>])
    \o <<(<<"e", "l", "s", "e", " ", "{">>)>>
    \o PlainLines(t.block_if_false, 1)
    \o <<(<<"}">>)>>

C6_IfElseIfKeywords ==
    (/\ pc = "done"
     /\ NodeUnderStudy.type = "IfElseIf"
     /\ NodeUnderStudy.condition_block_vec # <<>>)
    => /\ LinesAt(buf, 4 * DepthUnderStudy)
            = ClaimedIfElseIfOwnLines(NodeUnderStudy) \o LinesAfterStudy
       /\ (ast.type = "IfElseIf" /\ \A i \in 1..Len(Children(ast)) : IsPlain(Children(ast)[i]))
            => Lines(buf) = ClaimedIfElseIfLines(ast)

\* A returned output of an IfElseIf with three pairs and an empty Block as
\* its false branch.
C6_Witness ==
    /\ pc = "done"
    /\ ast.type = "IfElseIf"
    /\ Len(ast.condition_block_vec) = 3
    /\ ast.block_if_false = Block(<<>>)
    /\ Len(LinesAt(buf, 0)) = 8

(***************************************************************************)
(* C7.  Switch case rendering: the case value lines are written in the     *)
(* declared order of the pairs, one per pair, between the line             *)
(* `switch <condition> {` and its closing line; a pair without a body is   *)
(* the single line `<value> -`, a pair with a body is `<value> {`, the     *)
(* body and a closing line of its own.                                     *)
(***************************************************************************)
\* The lines of the cases themselves: value lines and closing lines.
ClaimedCaseOwnLines(t) ==
    Flatten([i \in 1..Len(t.value_block_or_fallthrough_vec) |->
                LET value == t.value_block_or_fallthrough_vec[i][1]
                    body == t.value_block_or_fallthrough_vec[i][2]
                IN  IF body = None THEN <<value \o <<" ", "-">>>>
                    ELSE <<value \o <<" ", "{">>, (<<"}">>)>>])

ClaimedSwitchHeader(t) == <<"s", "w", "i", "t", "c", "h", " ">> \o t.condition \o <<" ", "{">>

\* All the lines of the Switch t at depth 0, the bodies of its cases being
\* plain.
ClaimedSwitchLines(t) ==
    <<ClaimedSwitchHeader(t)>>
    \o Flatten([i \in 1..Len(t.value_block_or_fallthrough_vec) |->
                   LET value == t.value_block_or_fallthrough_vec[i][1]
                       body == t.value_block_or_fallthrough_vec[i][2]
                   IN  IF body = None THEN <<Spaces(4) \o value \o <<" ", "-">>>>
                       ELSE <<Spaces(4) \o value \o <<" ", "{">>>>
                            \o PlainLines(body[1], 2)
                            \o <<Spaces(4) \o <<"}">>>>])
    \o <<(<<"}">>)>>

C7_SwitchCases ==
    (pc = "done" /\ NodeUnderStudy.type = "Switch")
    => /\ LinesAt(buf, 4 * DepthUnderStudy)
            = <<ClaimedSwitchHeader(NodeUnderStudy), (<<"}">>)>> \o LinesAfterStudy
       /\ LinesAt(buf, 4 * (DepthUnderStudy + 1)) = ClaimedCaseOwnLines(NodeUnderStudy)
       /\ (ast.type = "Switch" /\ \A i \in 1..Len(Children(ast)) : IsPlain(Children(ast)[i]))
            => Lines(buf) = ClaimedSwitchLines(ast)

\* A returned output of a Switch whose first case falls through and whose
\* second case, with another value, has a body.
C7_Witness ==
    /\ pc = "done"
    /\ ast.type = "Switch"
    /\ Len(ast.value_block_or_fallthrough_vec) >= 2
    /\ ast.value_block_or_fallthrough_vec[1] = <<(<<"1">>), None>>
    /\ ast.value_block_or_fallthrough_vec[2] = <<(<<"x">>), Some(Block(<<LeafStatement>>))>>
    /\ SubSeq(Lines(buf), 2, 3) = <<(<<" ", " ", " ", " ", "1", " ", "-">>),
                                    (<<" ", " ", " ", " ", "x", " ", "{">>)>>

====
